---------------------------- MODULE Spec2Model ----------------------------
(***************************************************************************)
(* Model of the provider-response contract layer of the translator:        *)
(* translator_app/core.py (extractor, parser, coercers, translate_text),   *)
(* translator_app/ollama.py (the two exchanges) and                        *)
(* translator_app/prompting.py (the prompts).                              *)
(*                                                                         *)
(* A text (Python str) is a sequence of lexemes.  A lexeme is either one   *)
(* character that some part of the code looks at on its own                *)
(*   {  }  "  \  :  ,  [  ]  space  newline                                *)
(* or a non-empty run of other characters ("hi", "null", "Sure").  Every   *)
(* function modelled here treats a run of other characters uniformly, so   *)
(* the abstraction keeps what the code does to the text.                   *)
(***************************************************************************)
EXTENDS Integers, Sequences, FiniteSets, TLC

VARIABLES
    text,        \* _extract_first_json_object: the argument
    embedded,    \* how text was built: [is, prefix, obj, suffix]
    extraction,  \* _extract_first_json_object: what the call produced
    request,     \* the TranslateRequest
    parsed,      \* the dict handed to a coercer
    coercion,    \* what the coercer produced
    provider_name, \* config.provider.name
    pc,          \* translate_text: "start", "fallback" (inside the except clause), "done"
    sent,        \* the HTTP requests sent so far, in order
    replies,     \* what the network did with each of them
    chat,        \* what chat_json produced
    generate,    \* what generate_json produced
    content,     \* the text handed to _parse_json
    outcome      \* what translate_text returned or raised

pureVars == <<text, embedded, extraction, parsed, coercion>>
exchangeVars == <<provider_name, pc, sent, replies, chat, generate, content, outcome>>
vars == <<text, embedded, extraction, request, parsed, coercion,
          provider_name, pc, sent, replies, chat, generate, content, outcome>>

(* ----------------------------- bounds --------------------------------- *)
MaxTextLen == 5      \* longest arbitrary text handed to the extractor
MaxContentLen == 2   \* longest string-literal content (in units) of an embedded object
MaxAffixLen == 1     \* longest brace-free prefix / suffix around an embedded object
MaxEntries == 2      \* longest entries list handed to the dictionary coercer
MaxSenses == 2       \* longest senses list of one entry

(* ----------------------------- texts ---------------------------------- *)
LB == "{"
RB == "}"
QUOTE == "\""
BSLASH == "\\"
SPACE == " "
NEWLINE == "\n"

Whitespace == {SPACE, NEWLINE}

\* All sequences over S of length 0..n.
SeqsUpTo(S, n) == UNION {[1..k -> S] : k \in 0..n}

RECURSIVE Flatten(_)
Flatten(ss) == IF ss = <<>> THEN <<>> ELSE Head(ss) \o Flatten(Tail(ss))

RECURSIVE LStrip(_)
LStrip(s) == IF s # <<>> /\ Head(s) \in Whitespace THEN LStrip(Tail(s)) ELSE s

RECURSIVE RStrip(_)
RStrip(s) ==
    IF s # <<>> /\ s[Len(s)] \in Whitespace THEN RStrip(SubSeq(s, 1, Len(s) - 1)) ELSE s

\* str.strip()
Strip(s) == RStrip(LStrip(s))

\* str.find("{") as a 1-based index, 0 when absent (Python's -1)
RECURSIVE FindFrom(_, _, _)
FindFrom(s, ch, i) ==
    IF i > Len(s) THEN 0 ELSE IF s[i] = ch THEN i ELSE FindFrom(s, ch, i + 1)

Find(s, ch) == FindFrom(s, ch, 1)

\* The text c between double quotes.
Literal(c) == <<QUOTE>> \o c \o <<QUOTE>>

(* --------------------------- Python values ----------------------------- *)
\* What json.loads produces and what the result dataclasses hold.  A dict is
\* its items in insertion order, each item <<key text, value>>.
JNull == [t |-> "null"]
JBool(b) == [t |-> "bool", b |-> b]
JNum(n) == [t |-> "num", n |-> n]
JStr(s) == [t |-> "str", s |-> s]
JList(items) == [t |-> "list", items |-> items]
JDict(items) == [t |-> "dict", items |-> items]

(* ------------------- _extract_first_json_object ------------------------ *)
\* The result of a call that may raise: kind "ok" carries the returned value,
\* any other kind is the raised error with its raw_response.
Ok(v) == [kind |-> "ok", value |-> v]
Raise(k, raw) == [kind |-> k, value |-> JStr(raw)]
RaiseNoRaw(k) == [kind |-> k, value |-> JNull]

ScanInit == [depth |-> 0, in_str |-> FALSE, esc |-> FALSE, closed |-> FALSE]

\* A scan that forgets the escape flag: an escaped quote ends the string.
ScanStepNoEsc(st, ch) ==
    IF st.in_str
    THEN IF ch = QUOTE THEN [st EXCEPT !.in_str = FALSE] ELSE st
    ELSE IF ch = QUOTE THEN [st EXCEPT !.in_str = TRUE]
    ELSE IF ch = LB THEN [st EXCEPT !.depth = @ + 1]
    ELSE IF ch = RB THEN [st EXCEPT !.depth = @ - 1, !.closed = (st.depth - 1 = 0)]
    ELSE st

\* One iteration of the for loop (core.py 39-56).
ScanStep(st, ch) ==
    IF st.in_str
    THEN IF st.esc THEN [st EXCEPT !.esc = FALSE]
         ELSE IF ch = BSLASH THEN [st EXCEPT !.esc = TRUE]
         ELSE IF ch = QUOTE THEN [st EXCEPT !.in_str = FALSE]
         ELSE st
    ELSE IF ch = QUOTE THEN [st EXCEPT !.in_str = TRUE]
    ELSE IF ch = LB THEN [st EXCEPT !.depth = @ + 1]
    ELSE IF ch = RB THEN [st EXCEPT !.depth = @ - 1, !.closed = (st.depth - 1 = 0)]
    ELSE st

\* The for loop: the index at which the scan returns, 0 when it runs off the end.
RECURSIVE ScanFrom(_, _, _)
ScanFrom(s, i, st) ==
    IF i > Len(s) THEN 0
    ELSE LET n == ScanStep(st, s[i])
         IN  IF n.closed THEN i ELSE ScanFrom(s, i + 1, n)

\* The shortcut of core.py 30.
StartsAndEndsWithBrace(s) == s # <<>> /\ s[1] = LB /\ s[Len(s)] = RB

ExtractFirstJsonObject(t) ==
    LET s == Strip(t)
        start == Find(s, LB)
        end == ScanFrom(s, start, ScanInit)
    IN  IF StartsAndEndsWithBrace(s) THEN Ok(JStr(s))
        ELSE IF start = 0 THEN Raise("not_found", t)
        ELSE IF end = 0 THEN Raise("unterminated", t)
        ELSE Ok(JStr(SubSeq(s, start, end)))

(* ----------------------------- json.loads ----------------------------- *)
\* A recursive-descent reading of a text as JSON.  A step returns
\* [ok |-> TRUE, val, next] (next: the index after what was read) or NoParse.
\* Of the escapes only \" and \\ are read; the replies of the model use no other.
NoParse == [ok |-> FALSE]
Parsed(v, i) == [ok |-> TRUE, val |-> v, next |-> i]

Digits == <<"0", "1", "2", "3", "4", "5", "6", "7", "8", "9">>
IsDigit(ch) == \E d \in 1..Len(Digits) : Digits[d] = ch
DigitValue(ch) == (CHOOSE d \in 1..Len(Digits) : Digits[d] = ch) - 1

RECURSIVE SkipWs(_, _)
SkipWs(s, i) == IF i <= Len(s) /\ s[i] \in Whitespace THEN SkipWs(s, i + 1) ELSE i

\* The body of a string literal from index i (after the opening quote).
RECURSIVE StrBody(_, _, _)
StrBody(s, i, acc) ==
    IF i > Len(s) THEN NoParse
    ELSE IF s[i] = QUOTE THEN Parsed(JStr(acc), i + 1)
    ELSE IF s[i] = NEWLINE THEN NoParse
    ELSE IF s[i] = BSLASH
         THEN IF i + 1 <= Len(s) /\ s[i + 1] \in {QUOTE, BSLASH}
              THEN StrBody(s, i + 2, Append(acc, s[i + 1]))
              ELSE NoParse
    ELSE StrBody(s, i + 1, Append(acc, s[i]))

\* dict[key] = value: a repeated key keeps its place and takes the new value.
DictSet(items, k, v) ==
    IF \E j \in 1..Len(items) : items[j][1] = k
    THEN [j \in 1..Len(items) |-> IF items[j][1] = k THEN <<k, v>> ELSE items[j]]
    ELSE Append(items, <<k, v>>)

RECURSIVE ParseValue(_, _)
RECURSIVE ParseMembers(_, _, _)
RECURSIVE ParseElements(_, _, _)

\* The members of an object from index i (at a key), items read so far in acc.
ParseMembers(s, i, acc) ==
    IF i > Len(s) \/ s[i] # QUOTE THEN NoParse
    ELSE LET k == StrBody(s, i + 1, <<>>)
         IN  IF ~k.ok THEN NoParse
             ELSE LET c == SkipWs(s, k.next)
                  IN  IF c > Len(s) \/ s[c] # ":" THEN NoParse
                      ELSE LET v == ParseValue(s, SkipWs(s, c + 1))
                           IN  IF ~v.ok THEN NoParse
                               ELSE LET e == SkipWs(s, v.next)
                                        items == DictSet(acc, k.val.s, v.val)
                                    IN  IF e > Len(s) THEN NoParse
                                        ELSE IF s[e] = RB THEN Parsed(JDict(items), e + 1)
                                        ELSE IF s[e] = ","
                                             THEN ParseMembers(s, SkipWs(s, e + 1), items)
                                        ELSE NoParse

\* The elements of an array from index i (at a value), elements read so far in acc.
ParseElements(s, i, acc) ==
    LET v == ParseValue(s, i)
    IN  IF ~v.ok THEN NoParse
        ELSE LET e == SkipWs(s, v.next)
                 items == Append(acc, v.val)
             IN  IF e > Len(s) THEN NoParse
                 ELSE IF s[e] = "]" THEN Parsed(JList(items), e + 1)
                 ELSE IF s[e] = "," THEN ParseElements(s, SkipWs(s, e + 1), items)
                 ELSE NoParse

ParseValue(s, i) ==
    IF i > Len(s) THEN NoParse
    ELSE IF s[i] = QUOTE THEN StrBody(s, i + 1, <<>>)
    ELSE IF s[i] = LB
         THEN LET j == SkipWs(s, i + 1)
              IN  IF j <= Len(s) /\ s[j] = RB THEN Parsed(JDict(<<>>), j + 1)
                  ELSE ParseMembers(s, j, <<>>)
    ELSE IF s[i] = "["
         THEN LET j == SkipWs(s, i + 1)
              IN  IF j <= Len(s) /\ s[j] = "]" THEN Parsed(JList(<<>>), j + 1)
                  ELSE ParseElements(s, j, <<>>)
    ELSE IF s[i] = "null" THEN Parsed(JNull, i + 1)
    ELSE IF s[i] = "true" THEN Parsed(JBool(TRUE), i + 1)
    ELSE IF s[i] = "false" THEN Parsed(JBool(FALSE), i + 1)
    ELSE IF IsDigit(s[i]) THEN Parsed(JNum(DigitValue(s[i])), i + 1)
    ELSE NoParse

\* json.loads(s): one value, whitespace around it, nothing after it.
JsonLoads(s) ==
    LET v == ParseValue(s, SkipWs(s, 1))
    IN  IF v.ok /\ SkipWs(s, v.next) > Len(s) THEN v ELSE NoParse

(* ----------------------------- json.dumps ----------------------------- *)
\* A float is kept as its literal.
PyFloat(lit) == [t |-> "float", lit |-> lit]

RECURSIVE EscapeJson(_)
EscapeJson(s) ==
    IF s = <<>> THEN <<>>
    ELSE (IF Head(s) \in {QUOTE, BSLASH} THEN <<BSLASH, Head(s)>>
          ELSE IF Head(s) = NEWLINE THEN <<BSLASH, "n">>
          ELSE <<Head(s)>>) \o EscapeJson(Tail(s))

\* sep.join(parts)
RECURSIVE Join(_, _)
Join(parts, sep) ==
    IF parts = <<>> THEN <<>>
    ELSE IF Len(parts) = 1 THEN parts[1]
    ELSE parts[1] \o sep \o Join(Tail(parts), sep)

\* json.dumps(v, separators=(item_sep, key_sep))
RECURSIVE JsonDumpsSep(_, _, _)
JsonDumpsSep(v, item_sep, key_sep) ==
    IF v.t = "null" THEN <<"null">>
    ELSE IF v.t = "bool" THEN (IF v.b THEN <<"true">> ELSE <<"false">>)
    ELSE IF v.t = "num" THEN <<Digits[v.n + 1]>>
    ELSE IF v.t = "float" THEN <<v.lit>>
    ELSE IF v.t = "str" THEN Literal(EscapeJson(v.s))
    ELSE IF v.t = "list"
         THEN <<"[">>
              \o Join([j \in 1..Len(v.items) |-> JsonDumpsSep(v.items[j], item_sep, key_sep)],
                      item_sep)
              \o <<"]">>
    ELSE <<LB>>
         \o Join([j \in 1..Len(v.items) |->
                    Literal(EscapeJson(v.items[j][1])) \o key_sep
                    \o JsonDumpsSep(v.items[j][2], item_sep, key_sep)],
                 item_sep)
         \o <<RB>>

\* json.dumps(v): the default separators are ", " and ": ".
JsonDumps(v) == JsonDumpsSep(v, <<",", SPACE>>, <<":", SPACE>>)

(* ------------------------------ str(x) -------------------------------- *)
RECURSIVE EscapeRepr(_)
EscapeRepr(s) ==
    IF s = <<>> THEN <<>>
    ELSE (IF Head(s) = BSLASH THEN <<BSLASH, BSLASH>>
          ELSE IF Head(s) = NEWLINE THEN <<BSLASH, "n">>
          ELSE <<Head(s)>>) \o EscapeRepr(Tail(s))

\* repr(v); a str is shown in single quotes (no text of the model holds one).
RECURSIVE PyRepr(_)
PyRepr(v) ==
    IF v.t = "null" THEN <<"None">>
    ELSE IF v.t = "bool" THEN (IF v.b THEN <<"True">> ELSE <<"False">>)
    ELSE IF v.t = "num" THEN <<Digits[v.n + 1]>>
    ELSE IF v.t = "float" THEN <<v.lit>>
    ELSE IF v.t = "str" THEN <<"'">> \o EscapeRepr(v.s) \o <<"'">>
    ELSE IF v.t = "list"
         THEN <<"[">> \o Join([j \in 1..Len(v.items) |-> PyRepr(v.items[j])], <<",", SPACE>>)
              \o <<"]">>
    ELSE <<LB>>
         \o Join([j \in 1..Len(v.items) |->
                    PyRepr(JStr(v.items[j][1])) \o <<":", SPACE>> \o PyRepr(v.items[j][2])],
                 <<",", SPACE>>)
         \o <<RB>>

\* str(v): a str is itself, anything else its repr (None gives "None").
PyStr(v) == IF v.t = "str" THEN v.s ELSE PyRepr(v)

\* bool(v)
Truthy(v) ==
    IF v.t = "null" THEN FALSE
    ELSE IF v.t = "bool" THEN v.b
    ELSE IF v.t = "num" THEN v.n # 0
    ELSE IF v.t = "float" THEN TRUE
    ELSE IF v.t = "str" THEN v.s # <<>>
    ELSE v.items # <<>>

HasKey(d, k) == \E j \in 1..Len(d.items) : d.items[j][1] = k

\* d[k] for a key that is there
Item(d, k) == d.items[CHOOSE j \in 1..Len(d.items) : d.items[j][1] = k][2]

\* d.get(k, default)
GetOr(d, k, default) == IF HasKey(d, k) THEN Item(d, k) ELSE default

\* d.get(k)
Get(d, k) == GetOr(d, k, JNull)

\* x in (None, "")
IsNoneOrEmpty(v) == v = JNull \/ v = JStr(<<>>)

(* ------------------------------ coercion ------------------------------ *)
K(name) == <<name>>   \* a key or a one-word text

\* core.py 71-76
CoerceStrList(v) ==
    IF v.t = "list" THEN JList([j \in 1..Len(v.items) |-> JStr(PyStr(v.items[j]))]) ELSE JNull

\* str(d[k]).strip() if d.get(k) not in (None, "") else None  (core.py 86-89)
OptionalStripped(d, k) ==
    IF ~IsNoneOrEmpty(Get(d, k)) THEN JStr(Strip(PyStr(Item(d, k)))) ELSE JNull

\* str(d[k]) if d.get(k) not in (None, "") else None  (core.py 113, 127-129)
OptionalText(d, k) ==
    IF ~IsNoneOrEmpty(Get(d, k)) THEN JStr(PyStr(Item(d, k))) ELSE JNull

\* core.py 79-93
AsTranslateResult(obj, provider, model, latency_ms) ==
    LET translation == Strip(PyStr(GetOr(obj, K("translation"), JStr(<<>>))))
    IN  IF translation = <<>>
        THEN Raise("missing_translation", JsonDumps(obj))
        ELSE Ok([type |-> "TranslateResult",
                 translation |-> JStr(translation),
                 alternatives |-> CoerceStrList(Get(obj, K("alternatives"))),
                 notes |-> OptionalStripped(obj, K("notes")),
                 detected_source_lang |-> OptionalStripped(obj, K("detected_source_lang")),
                 provider |-> provider,
                 model |-> model,
                 latency_ms |-> latency_ms])

\* core.py 119-123: the sense is a dict and its meaning is not empty
KeepSense(sense_raw) ==
    /\ sense_raw.t = "dict"
    /\ Strip(PyStr(GetOr(sense_raw, K("meaning"), JStr(<<>>)))) # <<>>

\* core.py 124-131
AsSense(sense_raw) ==
    [meaning |-> JStr(Strip(PyStr(GetOr(sense_raw, K("meaning"), JStr(<<>>))))),
     example_source |-> OptionalText(sense_raw, K("example_source")),
     example_target |-> OptionalText(sense_raw, K("example_target")),
     usage_notes |-> OptionalText(sense_raw, K("usage_notes"))]

\* core.py 114-131: the senses of one entry
AsSenses(entry_raw) ==
    LET got == Get(entry_raw, K("senses"))
        senses_raw == IF Truthy(got) /\ got.t = "list" THEN got.items ELSE <<>>
        kept == SelectSeq(senses_raw, KeepSense)
    IN  [j \in 1..Len(kept) |-> AsSense(kept[j])]

\* An entry is kept whatever is left of its senses.
KeepEntryAlways(senses) == TRUE

\* core.py 132
KeepEntry(senses) == senses # <<>>

\* core.py 110-133: one element of entries, when it is a dict
AsEntry(entry_raw) ==
    [pos |-> OptionalText(entry_raw, K("pos")), senses |-> AsSenses(entry_raw)]

IsDictValue(v) == v.t = "dict"
EntryKept(entry) == KeepEntry(entry.senses)

\* core.py 96-136
AsDictionaryResult(req, obj, provider, model, latency_ms) ==
    LET gotTerm == Get(obj, K("term"))
        term == Strip(PyStr(IF Truthy(gotTerm) THEN gotTerm ELSE JStr(req.text)))
        gotEntries == Get(obj, K("entries"))
        entries_raw == IF Truthy(gotEntries) THEN gotEntries ELSE JList(<<>>)
        dicts == SelectSeq(entries_raw.items, IsDictValue)
        entries == SelectSeq([j \in 1..Len(dicts) |-> AsEntry(dicts[j])], EntryKept)
    IN  IF entries_raw.t # "list"
        THEN Raise("entries_not_list", JsonDumps(obj))
        ELSE IF entries = <<>>
        THEN Raise("no_entries", JsonDumps(obj))
        ELSE Ok([type |-> "DictionaryResult",
                 term |-> JStr(term),
                 entries |-> entries,
                 provider |-> provider,
                 model |-> model,
                 latency_ms |-> latency_ms])

(* --------------------- inputs of the extractor ------------------------- *)
TextAlphabet == {LB, RB, QUOTE, BSLASH, SPACE, "a"}
ArbitraryTexts == SeqsUpTo(TextAlphabet, MaxTextLen)

\* The units a JSON string literal is made of: plain characters, braces, and
\* the two escapes \" and \\ .
ContentUnits == {<<"a">>, <<SPACE>>, <<LB>>, <<RB>>, <<BSLASH, QUOTE>>, <<BSLASH, BSLASH>>}
StringContents == {Flatten(us) : us \in SeqsUpTo(ContentUnits, MaxContentLen)}

\* Valid JSON objects: {}, {"k":"<content>"} and {"k":{"k":"<content>"}}.
EmbeddedObjects ==
    {<<LB, RB>>}
    \cup {<<LB>> \o Literal(<<"k">>) \o <<":">> \o Literal(c) \o <<RB>> : c \in StringContents}
    \cup {<<LB>> \o Literal(<<"k">>) \o <<":">> \o <<LB>> \o Literal(<<"k">>) \o <<":">>
              \o Literal(c) \o <<RB, RB>> : c \in StringContents}

\* Surrounding text that contains no brace.
Affixes == SeqsUpTo({"a", SPACE, QUOTE, BSLASH}, MaxAffixLen)

NotEmbedded == [is |-> FALSE, prefix |-> <<>>, obj |-> <<>>, suffix |-> <<>>]
Pending == [kind |-> "pending", value |-> JNull]

\* models.py 11-27; only the fields the modelled code reads vary
NoRerun == JNull
RerunHint(style) == [t |-> "RerunHint", style |-> style]
Request(txt, mode, rerun, seed) ==
    [text |-> txt, source_lang |-> "auto", target_lang |-> "FR", mode |-> mode,
     tone |-> "neutral", tone_instructions |-> JNull, explain_lang |-> "EN",
     rerun |-> rerun, seed |-> seed, temperature |-> "0.2"]

RequestTexts == {<<"Hello">>, <<SPACE, "cat", NEWLINE>>}
Modes == {"translate", "dictionary"}
IdleRequest == Request(<<"Hello">>, "translate", NoRerun, JNull)

\* translate_text is not running.
NoExchange ==
    /\ provider_name = "ollama"
    /\ pc = "idle"
    /\ sent = <<>>
    /\ replies = <<>>
    /\ chat = Pending
    /\ generate = Pending
    /\ content = JNull
    /\ outcome = Pending

InitExtract ==
    /\ extraction = Pending
    /\ request = IdleRequest
    /\ parsed = JNull
    /\ coercion = Pending
    /\ NoExchange
    /\ \/ /\ text \in ArbitraryTexts
          /\ embedded = NotEmbedded
       \/ \E p \in Affixes, o \in EmbeddedObjects, x \in Affixes :
            /\ text = p \o o \o x
            /\ embedded = [is |-> TRUE, prefix |-> p, obj |-> o, suffix |-> x]

\* The call _extract_first_json_object(text).
Extract ==
    /\ extraction = Pending
    /\ extraction' = ExtractFirstJsonObject(text)
    /\ UNCHANGED <<text, embedded, request, parsed, coercion>>
    /\ UNCHANGED exchangeVars

NextExtract == Extract

SpecExtract == InitExtract /\ [][NextExtract]_vars

(* ------------------------------- C2 ------------------------------------ *)
\* C2: a valid JSON object embedded between brace-free prefix and suffix text
\* (its string values may hold braces and escaped quotes) is returned exactly.
EmbeddedObjectReturnedExactly ==
    (embedded.is /\ extraction # Pending) => extraction = Ok(JStr(embedded.obj))

\* An object whose string value holds an escaped quote followed by a brace,
\* behind a non-empty prefix (so the scan, not the shortcut, finds it).
EmbeddedEscapedQuoteExtracted ==
    /\ embedded.is
    /\ embedded.prefix = <<"a">>
    /\ embedded.obj = <<LB>> \o Literal(<<"k">>) \o <<":">>
                        \o Literal(<<BSLASH, QUOTE, RB>>) \o <<RB>>
    /\ extraction = Ok(JStr(embedded.obj))

(* ------------------------------- C3 ------------------------------------ *)
NoOpeningBrace(t) == \A i \in 1..Len(t) : t[i] # LB

\* A { is opened and the depth counted outside string literals never returns
\* to zero after it.
OpenedNeverBalanced(t) ==
    /\ ~NoOpeningBrace(t)
    /\ ScanFrom(Strip(t), Find(Strip(t), LB), ScanInit) = 0

\* C3: extraction fails as "unterminated" for every input whose { is never
\* balanced and as "not found" for every input without a {, and neither
\* condition is reported for the other's inputs.
UnterminatedAndNotFoundReported ==
    extraction # Pending =>
        /\ NoOpeningBrace(text) <=> extraction.kind = "not_found"
        /\ OpenedNeverBalanced(text) <=> extraction.kind = "unterminated"

(* ------------------------------- C10 ----------------------------------- *)
\* The substring from the first { to the } at which the depth first returns to zero.
FirstBalancedObject(s) == SubSeq(s, Find(s, LB), ScanFrom(s, Find(s, LB), ScanInit))

\* C10: a successful extraction returns the first balanced object of the
\* trimmed text, also when the text starts with { and ends with } and holds
\* more after its first object.
FirstBalancedObjectReturned ==
    (extraction.kind = "ok" /\ ~OpenedNeverBalanced(text)) =>
        extraction.value = JStr(FirstBalancedObject(Strip(text)))

(* --------------------- inputs of the coercers -------------------------- *)
Absent == [t |-> "absent"]

\* A dict of the given <<key, value>> pairs, leaving out the Absent ones.
IsPresent(pair) == pair[2] # Absent
MkDict(pairs) == JDict(SelectSeq(pairs, IsPresent))

\* What a model may put in a field that should hold text.
TextFieldValues ==
    {Absent, JNull, JStr(<<>>), JStr(<<SPACE>>), JStr(<<"hi">>),
     JStr(<<SPACE, "hi", SPACE>>), JNum(0), JList(<<>>)}
OptionalFieldValues == {Absent, JNull, JStr(<<>>), JStr(<<SPACE>>), JStr(<<"n">>), JNum(0)}
AlternativesValues ==
    {Absent, JNull, JStr(<<"x">>), JList(<<>>), JList(<<JStr(<<"a">>), JNum(1)>>)}

TranslateObjects ==
    {MkDict(<< <<K("translation"), tv>>, <<K("alternatives"), av>>,
               <<K("notes"), nv>>, <<K("detected_source_lang"), dv>> >>) :
        tv \in TextFieldValues, av \in AlternativesValues,
        nv \in OptionalFieldValues, dv \in OptionalFieldValues}

GoodSense == MkDict(<< <<K("meaning"), JStr(<<"m">>)>> >>)
GoodEntry == MkDict(<< <<K("pos"), JStr(<<"n">>)>>, <<K("senses"), JList(<<GoodSense>>)>> >>)

\* Replies that differ in the shape of entries and senses and in the meanings:
\* lists of senses that are no dict, blank, or good, and single senses whose
\* meaning is absent, null or empty.
SenseValues ==
    {JNum(0), MkDict(<< <<K("meaning"), JStr(<<SPACE>>)>> >>),
     MkDict(<< <<K("meaning"), JStr(<<SPACE, "m", SPACE>>)>> >>)}

SensesValues ==
    {Absent, JNull, JStr(<<"x">>)}
    \cup {JList(ss) : ss \in SeqsUpTo(SenseValues, MaxSenses)}
    \cup {JList(<<MkDict(<< <<K("meaning"), mv>> >>)>>) : mv \in {Absent, JNull, JStr(<<>>)}}

EntryValues ==
    {JStr(<<"x">>)}
    \cup {MkDict(<< <<K("pos"), JStr(<<"n">>)>>, <<K("senses"), sv>> >>) : sv \in SensesValues}

EntriesValues ==
    {Absent, JNull, JStr(<<"x">>), JDict(<<>>)}
    \cup {JList(es) : es \in SeqsUpTo(EntryValues, MaxEntries)}

ShapeObjects == {MkDict(<< <<K("entries"), ev>> >>) : ev \in EntriesValues}

\* Replies of one entry with one sense that differ in the optional fields.
OptionalFieldObjects ==
    {MkDict(<< <<K("entries"),
                 JList(<<MkDict(<< <<K("pos"), pv>>,
                                   <<K("senses"),
                                     JList(<<MkDict(<< <<K("meaning"), JStr(<<"m">>)>>,
                                                       <<K(f), ov>> >>)>>)>> >>)>>)>> >>) :
        pv \in {Absent, JNull, JStr(<<>>), JStr(<<SPACE>>), JStr(<<"n">>)},
        f \in {"example_source", "example_target", "usage_notes"},
        ov \in {JNull, JStr(<<>>), JStr(<<SPACE>>), JStr(<<"e">>)}}

\* Replies that differ in the term.
TermObjects ==
    {MkDict(<< <<K("term"), tv>>, <<K("entries"), JList(<<GoodEntry>>)>> >>) :
        tv \in {Absent, JNull, JStr(<<>>), JStr(<<"t">>), JStr(<<SPACE, "t">>)}}

ModelName == JStr(<<"m">>)
\* int((time.time() - start) * 1000): some number of milliseconds
Latencies == {0, 12}

InitCoerce ==
    /\ NoExchange
    /\ text = <<>>
    /\ embedded = NotEmbedded
    /\ extraction = Pending
    /\ coercion = Pending
    /\ \/ /\ request = Request(<<"Hello">>, "translate", NoRerun, JNull)
          /\ parsed \in TranslateObjects
       \/ /\ request = Request(<<"Hello">>, "dictionary", NoRerun, JNull)
          /\ parsed \in ShapeObjects \cup OptionalFieldObjects
       \/ /\ \E txt \in RequestTexts : request = Request(txt, "dictionary", NoRerun, JNull)
          /\ parsed \in TermObjects

\* The call _as_translate_result(obj, ...).
CoerceTranslate ==
    /\ coercion = Pending
    /\ request.mode # "dictionary"
    /\ \E ms \in Latencies : coercion' = AsTranslateResult(parsed, "ollama", ModelName, ms)
    /\ UNCHANGED <<text, embedded, extraction, request, parsed>>
    /\ UNCHANGED exchangeVars

\* The call _as_dictionary_result(request, obj, ...).
CoerceDictionary ==
    /\ coercion = Pending
    /\ request.mode = "dictionary"
    /\ \E ms \in Latencies :
         coercion' = AsDictionaryResult(request, parsed, "ollama", ModelName, ms)
    /\ UNCHANGED <<text, embedded, extraction, request, parsed>>
    /\ UNCHANGED exchangeVars

NextCoerce == CoerceTranslate \/ CoerceDictionary

SpecCoerce == InitCoerce /\ [][NextCoerce]_vars

(* ------------------------------- C4 ------------------------------------ *)
IsBlankText(v) == v.t = "str" /\ Strip(v.s) = <<>>

\* The reply carries no translation text: the key is absent, null or blank.
NoTranslationText(obj) ==
    \/ ~HasKey(obj, K("translation"))
    \/ Item(obj, K("translation")) = JNull
    \/ IsBlankText(Item(obj, K("translation")))

TranslateDone == request.mode = "translate" /\ coercion # Pending

\* C4: translate-mode coercion fails with a validation error whenever the
\* reply carries no translation text; otherwise the translation is the
\* trimmed value.
NoTranslationTextRejected ==
    TranslateDone =>
        IF NoTranslationText(parsed)
        THEN coercion.kind = "missing_translation"
        ELSE /\ coercion.kind = "ok"
             /\ coercion.value.translation
                  = JStr(Strip(PyStr(Item(parsed, K("translation")))))

(* ------------------------------- C5 ------------------------------------ *)
DictionaryDone == request.mode = "dictionary" /\ coercion # Pending

\* A sense of the reply that states a meaning: a dict whose meaning key is
\* there and is not a blank string.
MeaningGiven(sense_raw) ==
    /\ sense_raw.t = "dict"
    /\ HasKey(sense_raw, K("meaning"))
    /\ ~IsBlankText(Item(sense_raw, K("meaning")))

GivenSenses(entry_raw) ==
    IF entry_raw.t = "dict" /\ Get(entry_raw, K("senses")).t = "list"
    THEN SelectSeq(Get(entry_raw, K("senses")).items, MeaningGiven)
    ELSE <<>>

HasGivenSense(entry_raw) == GivenSenses(entry_raw) # <<>>

\* The entries of the reply that have a sense with a meaning, in order.
SurvivingEntries(obj) ==
    IF Get(obj, K("entries")).t = "list"
    THEN SelectSeq(Get(obj, K("entries")).items, HasGivenSense)
    ELSE <<>>

NullOrNonEmpty(v) == v = JNull \/ (v.t = "str" /\ v.s # <<>>)

\* C6: in every result of coercion each optional string field is null or a
\* non-empty string.
OptionalFieldsNullOrNonEmpty ==
    coercion.kind = "ok" =>
        IF coercion.value.type = "TranslateResult"
        THEN /\ NullOrNonEmpty(coercion.value.notes)
             /\ NullOrNonEmpty(coercion.value.detected_source_lang)
        ELSE \A i \in 1..Len(coercion.value.entries) :
               /\ NullOrNonEmpty(coercion.value.entries[i].pos)
               /\ \A j \in 1..Len(coercion.value.entries[i].senses) :
                    LET sense == coercion.value.entries[i].senses[j]
                    IN  /\ NullOrNonEmpty(sense.example_source)
                        /\ NullOrNonEmpty(sense.example_target)
                        /\ NullOrNonEmpty(sense.usage_notes)

(* ------------------------------ prompts ------------------------------- *)
\* A prompt is a text whose lexemes are the literal blocks of the template
\* and the request's field values.

\* prompting.py 11-16
BasePrompt == <<"You are a high-precision translation engine. ...", NEWLINE>>

\* prompting.py 7-9
ToneLine(req) ==
    <<"Tone/style: ", req.tone, ".">>
    \o (IF Truthy(req.tone_instructions)
        THEN <<" Additional instructions: ">> \o PyRepr(req.tone_instructions) \o <<".">>
        ELSE <<>>)

\* prompting.py 44-51
RerunLine(req) ==
    IF req.rerun = NoRerun THEN <<>>
    ELSE IF req.rerun.style = "more_literal"
         THEN <<"Regeneration hint: make it more literal (closer to source wording).">>
    ELSE IF req.rerun.style = "more_natural"
         THEN <<"Regeneration hint: make it more natural (native phrasing) while preserving meaning.">>
    ELSE <<"Regeneration hint: try a different valid translation.">>

\* prompting.py 6-70
BuildSystemPrompt(req) ==
    IF req.mode = "dictionary"
    THEN BasePrompt \o <<NEWLINE>> \o ToneLine(req) \o <<NEWLINE>>
         \o <<"Task: Return dictionary-style entries with multiple senses.", NEWLINE,
              "Output: JSON only, matching this schema: {term, entries}", NEWLINE>>
    ELSE BasePrompt \o <<NEWLINE>> \o ToneLine(req)
         \o (IF RerunLine(req) # <<>> THEN <<NEWLINE>> \o RerunLine(req) ELSE <<>>)
         \o <<NEWLINE,
              "Output: JSON only, matching this schema: {translation, alternatives, notes, detected_source_lang}",
              NEWLINE,
              "If the source language is ambiguous, set detected_source_lang to null and explain briefly in notes.",
              NEWLINE, "Notes language: ", req.explain_lang, ".", NEWLINE>>

\* prompting.py 73-89
BuildUserPrompt(req) ==
    IF req.mode = "dictionary"
    THEN <<"Explain and translate as a dictionary entry.", NEWLINE,
           "Target language for meanings/examples: ", req.target_lang, ".", NEWLINE,
           "Term: ">> \o Strip(req.text) \o <<NEWLINE>>
    ELSE <<"Translate the text.", NEWLINE,
           "Source language: ", req.source_lang, ".", NEWLINE,
           "Target language: ", req.target_lang, ".", NEWLINE,
           "Text:", NEWLINE>> \o req.text \o <<NEWLINE>>

(* ------------------------------ ollama.py ------------------------------ *)
\* config.py 15-18
OllamaHost == "http://localhost:11434"
OllamaModel == "gpt-oss:20b"

\* What the network does with one request:
\*   response        a 2xx status and a body, read in full
\*   http_error      a non-2xx status and a body (urllib raises HTTPError)
\*   unreachable     no connection (urllib raises URLError)
\*   connect_timeout the timeout expires while connecting (urlopen wraps it in URLError)
\*   read_timeout    the timeout expires while the response is read (TimeoutError,
\*                   which is not a URLError)
Response(body) == [net |-> "response", body |-> body]
HttpError(body) == [net |-> "http_error", body |-> body]
Unreachable == [net |-> "unreachable", body |-> <<>>]
ConnectTimeout == [net |-> "connect_timeout", body |-> <<>>]
ReadTimeout == [net |-> "read_timeout", body |-> <<>>]

\* The errors raised as OllamaError.
OllamaErrorKinds == {"ollama_http_status", "ollama_unreachable", "ollama_invalid_json"}
IsOllamaError(result) == result.kind \in OllamaErrorKinds

\* ollama.py 29-46
HttpPostJson(reply) ==
    IF reply.net = "response" THEN Ok(JStr(reply.body))
    ELSE IF reply.net = "http_error" THEN Raise("ollama_http_status", reply.body)
    ELSE IF reply.net \in {"unreachable", "connect_timeout"} THEN RaiseNoRaw("ollama_unreachable")
    ELSE RaiseNoRaw("TimeoutError")

\* ollama.py 62-75
Options(temperature, seed) ==
    MkDict(<< <<K("temperature"), PyFloat(temperature)>>,
              <<K("seed"), IF seed = JNull THEN Absent ELSE seed>> >>)

ChatPayload(system, user, temperature, seed) ==
    [url |-> <<OllamaHost, "/", "api/chat">>,
     payload |-> JDict(<< <<K("model"), JStr(<<OllamaModel>>)>>,
                          <<K("messages"),
                            JList(<<JDict(<< <<K("role"), JStr(<<"system">>)>>,
                                             <<K("content"), JStr(system)>> >>),
                                    JDict(<< <<K("role"), JStr(<<"user">>)>>,
                                             <<K("content"), JStr(user)>> >>)>>)>>,
                          <<K("stream"), JBool(FALSE)>>,
                          <<K("format"), JStr(<<"json">>)>>,
                          <<K("options"), Options(temperature, seed)>> >>)]

\* ollama.py 99-110
GeneratePayload(prompt, temperature, seed) ==
    [url |-> <<OllamaHost, "/", "api/generate">>,
     payload |-> JDict(<< <<K("model"), JStr(<<OllamaModel>>)>>,
                          <<K("prompt"), JStr(prompt)>>,
                          <<K("stream"), JBool(FALSE)>>,
                          <<K("format"), JStr(<<"json">>)>>,
                          <<K("options"), Options(temperature, seed)>> >>)]

OllamaResponse(c, model, latency_ms, raw) ==
    [content |-> c, model |-> model, latency_ms |-> latency_ms, raw |-> raw]

\* ollama.py 76-85: x.get(...) on anything but a dict raises, and the
\* except clause turns that into OllamaError too.
ChatJson(reply, latency_ms) ==
    LET http == HttpPostJson(reply)
        raw == http.value.s
        obj == JsonLoads(raw)
        message == GetOr(obj.val, K("message"), JDict(<<>>))
    IN  IF http.kind # "ok" THEN http
        ELSE IF ~obj.ok \/ obj.val.t # "dict" THEN Raise("ollama_invalid_json", raw)
        ELSE IF message.t # "dict" THEN Raise("ollama_invalid_json", raw)
        ELSE Ok(OllamaResponse(GetOr(message, K("content"), JStr(<<>>)),
                               Get(obj.val, K("model")), latency_ms, raw))

\* ollama.py 111-120
GenerateJson(reply, latency_ms) ==
    LET http == HttpPostJson(reply)
        raw == http.value.s
        obj == JsonLoads(raw)
    IN  IF http.kind # "ok" THEN http
        ELSE IF ~obj.ok \/ obj.val.t # "dict" THEN Raise("ollama_invalid_json", raw)
        ELSE Ok(OllamaResponse(GetOr(obj.val, K("response"), JStr(<<>>)),
                               Get(obj.val, K("model")), latency_ms, raw))

(* ---------------------------- translate_text --------------------------- *)
\* core.py 60-68; c is resp.content, which is whatever the envelope held:
\* anything but a str has no strip().
ParseJson(c) ==
    LET blob == ExtractFirstJsonObject(c.s)
        obj == JsonLoads(blob.value.s)
    IN  IF c.t # "str" THEN RaiseNoRaw("AttributeError")
        ELSE IF blob.kind # "ok" THEN blob
        ELSE IF ~obj.ok THEN Raise("parse_failed", c.s)
        ELSE IF obj.val.t # "dict" THEN Raise("not_object", c.s)
        ELSE Ok(obj.val)

\* core.py 167-172
ParseAndCoerce(req, resp) ==
    LET obj == ParseJson(resp.content)
    IN  IF obj.kind # "ok" THEN obj
        ELSE IF req.mode = "dictionary"
        THEN AsDictionaryResult(req, obj.value, "ollama", resp.model, resp.latency_ms)
        ELSE AsTranslateResult(obj.value, "ollama", resp.model, resp.latency_ms)

\* The fallback prompt without the blank line.
FallbackPromptNoBlankLine(system, user) == system \o user

\* core.py 157
FallbackPrompt(system, user) == system \o <<NEWLINE, NEWLINE>> \o user

(* ------------------------ replies of the provider ---------------------- *)
\* The provider writes JSON without spaces.
Wire(v) == JsonDumpsSep(v, <<",">>, <<":">>)

TranslationReply(tv) == MkDict(<< <<K("translation"), tv>> >>)

\* What the model may answer (resp.content).
ModelAnswers ==
    {Wire(TranslationReply(JStr(<<"Bonjour">>))),
     <<"Sure!", SPACE>> \o JsonDumps(TranslationReply(JStr(<<"Bonjour">>))),
     Wire(TranslationReply(JStr(<<>>))),
     JsonDumps(TranslationReply(JStr(<<>>))),
     Wire(MkDict(<< <<K("entries"), JList(<<GoodEntry>>)>> >>)),
     Wire(MkDict(<< <<K("entries"), JList(<<>>)>> >>)),
     <<"I", SPACE, "cannot">>,
     <<"Sure!", SPACE, LB, QUOTE, "translation", QUOTE, ":">>,
     <<LB, "translation", RB>>,
     <<>>}

ChatEnvelope(c) ==
    JDict(<< <<K("model"), ModelName>>,
             <<K("message"), JDict(<< <<K("role"), JStr(<<"assistant">>)>>,
                                      <<K("content"), c>> >>)>> >>)
GenerateEnvelope(c) == JDict(<< <<K("model"), ModelName>>, <<K("response"), c>> >>)

\* Bodies that are not the expected envelope.
MalformedBodies ==
    {<<"<html>">>,
     <<>>,
     Wire(JList(<<>>)),
     Wire(JDict(<< <<K("model"), ModelName>> >>)),
     Wire(JDict(<< <<K("message"), JNull>> >>)),
     Wire(JDict(<< <<K("message"), JDict(<< <<K("role"), JStr(<<"assistant">>)>> >>)>> >>)),
     Wire(ChatEnvelope(JNull))}

Bodies ==
    {Wire(ChatEnvelope(JStr(a))) : a \in ModelAnswers}
    \cup {Wire(GenerateEnvelope(JStr(a))) : a \in ModelAnswers}
    \cup MalformedBodies

Replies ==
    {Response(b) : b \in Bodies}
    \cup {HttpError(b) : b \in {<<>>, Wire(JDict(<< <<K("error"), JStr(<<"boom">>)>> >>))}}
    \cup {Unreachable, ConnectTimeout, ReadTimeout}

Requests ==
    {Request(txt, mode, rerun, seed) :
        txt \in {<<"Hello">>}, mode \in Modes,
        rerun \in {NoRerun, RerunHint("retry"), RerunHint("more_literal"),
                   RerunHint("more_natural")},
        seed \in {JNull, JNum(7)}}

Init ==
    /\ text = <<>>
    /\ embedded = NotEmbedded
    /\ extraction = Pending
    /\ parsed = JNull
    /\ coercion = Pending
    /\ request \in Requests
    /\ provider_name \in {"ollama", "openai"}
    /\ pc = "start"
    /\ sent = <<>>
    /\ replies = <<>>
    /\ chat = Pending
    /\ generate = Pending
    /\ content = JNull
    /\ outcome = Pending

\* core.py 140-141
UnsupportedProvider ==
    /\ pc = "start"
    /\ provider_name # "ollama"
    /\ outcome' = RaiseNoRaw("ValueError")
    /\ pc' = "done"
    /\ UNCHANGED <<request, provider_name, sent, replies, chat, generate, content>>
    /\ UNCHANGED pureVars

\* A chat exchange that also falls back when the content it got cannot be
\* extracted, parsed or validated (the try block drawn around the parsing too).
ChatExchangeRetryingContent ==
    /\ pc = "start"
    /\ provider_name = "ollama"
    /\ \E reply \in Replies, ms \in Latencies :
         LET system == BuildSystemPrompt(request)
             user == BuildUserPrompt(request)
             resp == ChatJson(reply, ms)
         IN  /\ sent' = Append(sent, ChatPayload(system, user, request.temperature, request.seed))
             /\ replies' = Append(replies, reply)
             /\ chat' = resp
             /\ IF resp.kind = "ok"
                THEN /\ content' = resp.value.content
                     /\ outcome' = ParseAndCoerce(request, resp.value)
                     /\ pc' = IF ParseAndCoerce(request, resp.value).kind = "ok"
                              THEN "done" ELSE "fallback"
                ELSE IF IsOllamaError(resp)
                THEN /\ pc' = "fallback"
                     /\ UNCHANGED <<content, outcome>>
                ELSE /\ outcome' = resp
                     /\ pc' = "done"
                     /\ UNCHANGED content
    /\ UNCHANGED <<request, provider_name, generate>>
    /\ UNCHANGED pureVars

\* core.py 143-156 and, when chat_json returns, 167-172
ChatExchange ==
    /\ pc = "start"
    /\ provider_name = "ollama"
    /\ \E reply \in Replies, ms \in Latencies :
         LET system == BuildSystemPrompt(request)
             user == BuildUserPrompt(request)
             resp == ChatJson(reply, ms)
         IN  /\ sent' = Append(sent, ChatPayload(system, user, request.temperature, request.seed))
             /\ replies' = Append(replies, reply)
             /\ chat' = resp
             /\ IF resp.kind = "ok"
                THEN /\ content' = resp.value.content
                     /\ outcome' = ParseAndCoerce(request, resp.value)
                     /\ pc' = "done"
                ELSE IF IsOllamaError(resp)
                THEN /\ pc' = "fallback"
                     /\ UNCHANGED <<content, outcome>>
                ELSE /\ outcome' = resp
                     /\ pc' = "done"
                     /\ UNCHANGED content
    /\ UNCHANGED <<request, provider_name, generate>>
    /\ UNCHANGED pureVars

\* core.py 157-165 and, when generate_json returns, 167-172
GenerateExchange ==
    /\ pc = "fallback"
    /\ \E reply \in Replies, ms \in Latencies :
         LET system == BuildSystemPrompt(request)
             user == BuildUserPrompt(request)
             resp == GenerateJson(reply, ms)
         IN  /\ sent' = Append(sent, GeneratePayload(FallbackPrompt(system, user),
                                                      request.temperature, request.seed))
             /\ replies' = Append(replies, reply)
             /\ generate' = resp
             /\ IF resp.kind = "ok"
                THEN /\ content' = resp.value.content
                     /\ outcome' = ParseAndCoerce(request, resp.value)
                ELSE /\ outcome' = resp
                     /\ UNCHANGED content
             /\ pc' = "done"
    /\ UNCHANGED <<request, provider_name, chat>>
    /\ UNCHANGED pureVars

Next == UnsupportedProvider \/ ChatExchange \/ GenerateExchange

Spec == Init /\ [][Next]_vars


(* ------------------------------- C1 ------------------------------------ *)
IsChat(rq) == rq.url = <<OllamaHost, "/", "api/chat">>
IsGenerate(rq) == rq.url = <<OllamaHost, "/", "api/generate">>
Failed(result) == result.kind \notin {"ok", "pending"}

\* The system and user texts of the chat request that was sent.
SentSystem == Item(Item(sent[1].payload, K("messages")).items[1], K("content")).s
SentUser == Item(Item(sent[1].payload, K("messages")).items[2], K("content")).s

\* C1: with a supported provider the chat exchange comes first and once; the
\* generate exchange is sent only after chat failed with OllamaError, at most
\* once, with the prompt system + blank line + user; when generate succeeds
\* its content is used and the chat error is not surfaced; when it fails its
\* error is what the caller receives; there is no third exchange.
ChatFirstThenOneFallback ==
    provider_name = "ollama" =>
        /\ Len(sent) <= 2
        /\ pc \in {"fallback", "done"} => Len(sent) >= 1
        /\ \A i \in 1..Len(sent) : IsChat(sent[i]) <=> i = 1
        /\ \A i \in 1..Len(sent) :
             IsGenerate(sent[i]) =>
                /\ i = 2
                /\ IsOllamaError(chat)
                /\ Item(sent[i].payload, K("prompt")).s
                     = SentSystem \o <<NEWLINE, NEWLINE>> \o SentUser
        /\ generate.kind = "ok" =>
                /\ content = generate.value.content
                /\ outcome # chat
                /\ ~IsOllamaError(outcome)
        /\ Failed(generate) => outcome = generate

\* Chat failed, generate answered, and the caller got a result.
FallbackSucceeded ==
    /\ pc = "done"
    /\ IsOllamaError(chat)
    /\ Len(sent) = 2
    /\ generate.kind = "ok"
    /\ outcome.kind = "ok"

(* ------------------------------- C7 ------------------------------------ *)
\* The body is JSON that holds the content field at the given place.
HoldsChatContent(body) ==
    LET obj == JsonLoads(body)
    IN  /\ obj.ok
        /\ obj.val.t = "dict"
        /\ HasKey(obj.val, K("message"))
        /\ Item(obj.val, K("message")).t = "dict"
        /\ HasKey(Item(obj.val, K("message")), K("content"))

HoldsGenerateContent(body) ==
    LET obj == JsonLoads(body)
    IN  obj.ok /\ obj.val.t = "dict" /\ HasKey(obj.val, K("response"))

\* C7: a body that is not JSON, or is JSON without the expected content field,
\* makes the exchange raise a transport error that carries the body; in chat
\* mode the generate exchange follows.
MalformedEnvelopeIsTransportError ==
    /\ (Len(replies) >= 1 /\ replies[1].net = "response" /\ ~HoldsChatContent(replies[1].body))
          => /\ chat = Raise("ollama_invalid_json", replies[1].body)
             /\ pc = "fallback" \/ Len(sent) = 2
    /\ (Len(replies) = 2 /\ replies[2].net = "response" /\ ~HoldsGenerateContent(replies[2].body))
          => generate = Raise("ollama_invalid_json", replies[2].body)

(* ------------------------------- C8 ------------------------------------ *)
TransportErrorKinds == OllamaErrorKinds
ExtractionErrorKinds == {"not_found", "unterminated"}
ParseErrorKinds == {"parse_failed", "not_object"}
ValidationErrorKinds == {"missing_translation", "entries_not_list", "no_entries"}

\* C8: every transport, extraction, parse and validation error raised by
\* translate_text carries the provider's text as it was received: the body of
\* the failed exchange, or the content that could not be used.
ErrorsCarryRawProviderText ==
    pc = "done" =>
        /\ (outcome.kind \in TransportErrorKinds /\ replies[Len(replies)].net \in {"response", "http_error"})
              => outcome.value = JStr(replies[Len(replies)].body)
        /\ outcome.kind \in ExtractionErrorKinds \cup ParseErrorKinds \cup ValidationErrorKinds
              => outcome.value = content

(* ------------------------------- C9 ------------------------------------ *)
TransportFailures == {"http_error", "unreachable", "connect_timeout", "read_timeout"}

\* C9: any transport failure of the chat exchange, a timeout while connecting
\* or while reading included, leads to the generate exchange; the same
\* failure of the generate exchange reaches the caller as a transport error.
AnyTransportFailureFallsBack ==
    /\ (Len(replies) >= 1 /\ replies[1].net \in TransportFailures)
          => pc = "fallback" \/ Len(sent) = 2
    /\ (Len(replies) = 2 /\ replies[2].net \in TransportFailures)
          => outcome.kind \in TransportErrorKinds

(* ------------------------------- C11 ----------------------------------- *)
ContentErrorKinds == ExtractionErrorKinds \cup ParseErrorKinds \cup ValidationErrorKinds

\* C11: once an exchange has returned content, no further exchange is sent:
\* after a chat exchange that returned content the generate exchange is never
\* sent, whatever becomes of the content, and an extraction, parse or
\* validation failure on it is what the caller receives.
ContentFailureNeverRetried ==
    /\ [](chat.kind = "ok" =>
            /\ Len(sent) = 1
            /\ generate = Pending
            /\ pc = "done"
            /\ content = chat.value.content
            /\ outcome # Pending)
    /\ [](generate.kind = "ok" => (Len(sent) = 2 /\ pc = "done" /\ outcome # Pending))
    /\ [][(outcome.kind \in ContentErrorKinds)
            => (outcome' = outcome /\ sent' = sent /\ pc' = "done")]_vars

\* Chat returned content whose object is unterminated: translate_text is done
\* with that error after the one request.
ChatContentFailurePropagated ==
    /\ chat.kind = "ok"
    /\ outcome.kind = "unterminated"
    /\ pc = "done"
    /\ Len(sent) = 1

(* ------------------------------- C12 ----------------------------------- *)
LiteralDirective == "Regeneration hint: make it more literal (closer to source wording)."
NaturalDirective ==
    "Regeneration hint: make it more natural (native phrasing) while preserving meaning."
AlternativeDirective == "Regeneration hint: try a different valid translation."
RegenerationDirectives == {LiteralDirective, NaturalDirective, AlternativeDirective}

\* The directive a hint's style selects.
DirectiveFor(style) ==
    IF style = "more_literal" THEN LiteralDirective
    ELSE IF style = "more_natural" THEN NaturalDirective
    ELSE AlternativeDirective

\* How many times the piece d occurs in the prompt p.
Occurrences(p, d) == Cardinality({i \in 1..Len(p) : p[i] = d})

\* C12: the system prompt of a request with a rerun hint, in translate and in
\* dictionary mode, holds exactly one regeneration directive, the one its
\* style selects; the system prompt of a request without a hint holds none.
OneRegenerationDirectivePerHint ==
    Len(sent) >= 1 =>
        \A d \in RegenerationDirectives :
            Occurrences(SentSystem, d)
              = IF request.rerun # NoRerun /\ d = DirectiveFor(request.rerun.style) THEN 1 ELSE 0

=============================================================================
